---- MODULE Spec2Model ----
(***************************************************************************)
(* A model of mkgit (src/mkgit.py): the site-spec parser, the target       *)
(* resolution, the three provisioners and the orchestrator main().         *)
(*                                                                         *)
(* Python strings are sequences of one-character strings.  None is a       *)
(* value different from every string.  The inputs hold no newline and no   *)
(* white space, so strip() and the line-end rules of the patterns play no  *)
(* part.  The key of a configuration line (GITHOST, PARENT, REPOLINK) is   *)
(* one element of the line.  The source_dir argument is left out: it only  *)
(* selects the directory that setup_working_directory tests.               *)
(***************************************************************************)
EXTENDS Integers, Sequences, FiniteSets, TLC

VARIABLES
    pstage,     \* parser harness: position ("input", "site", "url", "built", "reparsed")
    pin,        \* parser harness: the input (text and, for a built URL, its parts)
    psite,      \* parser harness: result of parse_site_arguments(pin.text)
    purl,       \* parser harness: result of parse_ssh_url(pin.text)
    pbuilt,     \* parser harness: SSHService.get_repository_url of purl
    pagain,     \* parser harness: parse_ssh_url(pbuilt)
    pscript,    \* parser harness: the ssh_script built from pin
    pc,         \* main(): the step the run is at, "done" and "failed" when it has exited
    runs,       \* how many runs of the tool have been started on this working copy
    args,       \* the parsed command line (argparse namespace)
    site_file,  \* the configuration fragment load_site_config found, NoFile when none
    config,     \* the RepositoryConfig of the run
    current_branch, \* main()'s current_branch
    description,    \* main()'s description
    repo_url,   \* main()'s repo_url
    origin,     \* the working copy's origin remote: its URL, None when there is none
    origin0,    \* the origin remote as the run started
    token_file, \* whether ~/.gitlab-token-<host> exists
    exit_status,    \* the exit status of the run, once it has exited
    errmsg,     \* which failure ended the run
    errtext,    \* the text fail() printed for a GitHub API error, None otherwise
    http_body,  \* the body of the error response that ended the run, NoBody otherwise
    cred_reads, \* calls of get_github_credentials / get_gitlab_credentials in this run
    http_calls, \* HTTP requests sent in this run
    ssh_calls,  \* remote-shell invocations in this run
    git_log,    \* the git remote/push commands of this run, each with its exit status
    printed     \* whether the success message was printed

pvars == <<pstage, pin, psite, purl, pbuilt, pagain, pscript>>

rvars == <<pc, runs, args, site_file, config, current_branch, description, repo_url,
           origin, origin0, token_file, exit_status, errmsg, errtext, http_body, cred_reads, http_calls,
           ssh_calls, git_log, printed>>

vars == <<pvars, rvars>>

-----------------------------------------------------------------------------
(* Bounds *)

MaxLen == 6         \* longest suffix typed after the site prefix
MaxSegs == 2        \* most segments of a parent path
MaxPart == 2        \* longest host or repository base name

-----------------------------------------------------------------------------
(* Strings *)

None == <<"<None>">>

Github == <<"g","i","t","h","u","b">>
Gitlab == <<"g","i","t","l","a","b">>
SshScheme == <<"s","s","h",":","/","/">>
DotGit == <<".","g","i","t">>
GithubCom == <<"g","i","t","h","u","b",".","c","o","m">>
GitlabCom == <<"g","i","t","l","a","b",".","c","o","m">>
NoneText == <<"N","o","n","e">>
SshKind == <<"s","s","h">>
CustomKind == <<"c","u","s","t","o","m">>
GitAt == <<"g","i","t","@">>
HttpsGithub == <<"h","t","t","p","s",":","/","/">> \o GithubCom \o <<"/">>
Repository == <<"R","e","p","o","s","i","t","o","r","y">>

\* bool(s) of an Optional[str]
Truthy(s) == s # None /\ s # <<>>

\* an f-string's rendering of an Optional[str]
Fmt(s) == IF s = None THEN NoneText ELSE s

StartsWith(s, p) == Len(s) >= Len(p) /\ SubSeq(s, 1, Len(p)) = p

EndsWith(s, p) == Len(s) >= Len(p) /\ SubSeq(s, Len(s) - Len(p) + 1, Len(s)) = p

Drop(s, n) == SubSeq(s, n + 1, Len(s))

Contains(s, c) == \E i \in 1..Len(s) : s[i] = c

\* index of the first c in s, 0 when there is none
IndexOf(s, c) ==
    IF Contains(s, c) THEN CHOOSE i \in 1..Len(s) : s[i] = c /\ \A j \in 1..(i-1) : s[j] # c
    ELSE 0

\* index of the last c in s, 0 when there is none
LastIndexOf(s, c) ==
    IF Contains(s, c) THEN CHOOSE i \in 1..Len(s) : s[i] = c /\ \A j \in (i+1)..Len(s) : s[j] # c
    ELSE 0

\* all strings over alphabet A of length at most n
RECURSIVE StringsUpTo(_, _)
StringsUpTo(A, n) ==
    IF n = 0 THEN {<<>>}
    ELSE LET shorter == StringsUpTo(A, n - 1)
         IN  shorter \cup {Append(s, c) : s \in shorter, c \in A}

-----------------------------------------------------------------------------
(* URLParser *)

\* the value a failed parse leaves in the fields it does not set
NoUrl == [ok |-> FALSE, host |-> None, parent_path |-> None, repo_name |-> None]

\* repo_name as returned: '.git' appended when missing (lines 253-255)
ssh_repo_name_nosuffix(name) == name

ssh_repo_name(name) == IF EndsWith(name, DotGit) THEN name ELSE name \o DotGit

\* re.match(r'ssh://([^/]*)', url): the host is the text up to the first '/'
git_match(url) ==
    IF ~StartsWith(url, SshScheme) THEN [matched |-> FALSE, g1 |-> None]
    ELSE LET rest == Drop(url, Len(SshScheme))
             i == IndexOf(rest, "/")
         IN  [matched |-> TRUE,
              g1 |-> IF i = 0 THEN rest ELSE SubSeq(rest, 1, i - 1)]

\* the text of url from the first '/' after the scheme on; <<>> when there is none
PathPart(url) ==
    LET rest == Drop(url, Len(SshScheme))
        i == IndexOf(rest, "/")
    IN  IF i = 0 THEN <<>> ELSE Drop(rest, i - 1)

\* re.match(r'ssh://[^/]*(/.*)/', url): greedy, so the group ends before the last '/'
parent_match(url) ==
    IF ~StartsWith(url, SshScheme) THEN [matched |-> FALSE, g1 |-> None]
    ELSE LET p == PathPart(url)
             k == LastIndexOf(p, "/")
         IN  IF k >= 2 THEN [matched |-> TRUE, g1 |-> SubSeq(p, 1, k - 1)]
             ELSE [matched |-> FALSE, g1 |-> None]

\* re.match(r'ssh://[^/]*/.*/([^/]*\.git)$', url), then, when that fails,
\* re.match(r'ssh://[^/]*/.*/([^/.]*)$', url)
proj_match(url) ==
    IF ~StartsWith(url, SshScheme) THEN [matched |-> FALSE, g1 |-> None]
    ELSE LET p == PathPart(url)
             k == LastIndexOf(p, "/")
             name == Drop(p, k)
         IN  IF k < 2 THEN [matched |-> FALSE, g1 |-> None]
             ELSE IF EndsWith(name, DotGit) THEN [matched |-> TRUE, g1 |-> name]
             ELSE IF ~Contains(name, ".") THEN [matched |-> TRUE, g1 |-> name]
             ELSE [matched |-> FALSE, g1 |-> None]

\* URLParser.parse_ssh_url: ok = FALSE is fail("bad SSH URL")
parse_ssh_url(ssh_url) ==
    LET g == git_match(ssh_url)
        p == parent_match(ssh_url)
        r == proj_match(ssh_url)
    IN  IF g.matched /\ p.matched /\ r.matched
        THEN [ok |-> TRUE, host |-> g.g1, parent_path |-> p.g1,
              repo_name |-> ssh_repo_name(r.g1)]
        ELSE NoUrl

\* re.match(r'^(github|gitlab)(?:-([^-]+)(?:-([^-]+))?)?$', site_arg),
\* for a site_arg that starts with github or gitlab
site_match(site_arg) ==
    LET rest == Drop(site_arg, 6)
        nomatch == [matched |-> FALSE, g1 |-> None, g2 |-> None, g3 |-> None]
        name == SubSeq(site_arg, 1, 6)
    IN  IF rest = <<>> THEN [matched |-> TRUE, g1 |-> name, g2 |-> None, g3 |-> None]
        ELSE IF rest[1] # "-" THEN nomatch
        ELSE LET t == Tail(rest)
                 i == IndexOf(t, "-")
             IN  IF i = 0
                 THEN IF t = <<>> THEN nomatch
                      ELSE [matched |-> TRUE, g1 |-> name, g2 |-> t, g3 |-> None]
                 ELSE LET s2 == SubSeq(t, 1, i - 1)
                          s3 == Drop(t, i)
                      IN  IF s2 # <<>> /\ s3 # <<>> /\ ~Contains(s3, "-")
                          THEN [matched |-> TRUE, g1 |-> name, g2 |-> s2, g3 |-> s3]
                          ELSE nomatch

\* the github branch of parse_site_arguments (lines 273-275)
github_config(m) ==
    [host |-> GithubCom, org |-> IF Truthy(m.g3) THEN m.g3 ELSE None]

\* the gitlab branch with the two groups taken in the wrong order
gitlab_config_swapped(m) ==
    IF Truthy(m.g3) THEN [host |-> m.g3, org |-> m.g2]
    ELSE IF Truthy(m.g2)
         THEN IF Contains(m.g2, ".") THEN [host |-> m.g2, org |-> None]
              ELSE [host |-> GitlabCom, org |-> m.g2]
         ELSE [host |-> GitlabCom, org |-> None]

\* the gitlab branch of parse_site_arguments (lines 276-289)
gitlab_config(m) ==
    IF Truthy(m.g3) THEN [host |-> m.g2, org |-> m.g3]
    ELSE IF Truthy(m.g2)
         THEN IF Contains(m.g2, ".") THEN [host |-> m.g2, org |-> None]
              ELSE [host |-> GitlabCom, org |-> m.g2]
         ELSE [host |-> GitlabCom, org |-> None]

\* the shape of every result of parse_site_arguments
SiteResult(outcome, service, host, org, parent_path, repo_name, site_name) ==
    [outcome |-> outcome, service |-> service, host |-> host, org |-> org,
     parent_path |-> parent_path, repo_name |-> repo_name, site_name |-> site_name]

\* URLParser.parse_site_arguments.  outcome is "return", "fail" (fail() was
\* called) or "assert" (the final assert False raised AssertionError)
parse_site_arguments(site_arg) ==
    IF ~Truthy(site_arg)
    THEN SiteResult("return", None, None, None, None, None, None)
    ELSE IF StartsWith(site_arg, Github) \/ StartsWith(site_arg, Gitlab)
    THEN LET m == site_match(site_arg)
         IN  IF m.matched
             THEN LET c == IF m.g1 = Github THEN github_config(m) ELSE gitlab_config(m)
                  IN  SiteResult("return", m.g1, c.host, c.org, None, None, None)
             ELSE SiteResult("assert", None, None, None, None, None, None)
    ELSE IF StartsWith(site_arg, SshScheme)
    THEN LET u == parse_ssh_url(site_arg)
         IN  IF u.ok
             THEN SiteResult("return", SshKind, u.host, None,
                             u.parent_path, u.repo_name, None)
             ELSE SiteResult("fail", None, None, None, None, None, None)
    ELSE SiteResult("return", CustomKind, None, None, None, None, site_arg)

\* get_repository_url with the parent path left out of the URL
ssh_get_repository_url_noparent(host, parent_path, repo_name) ==
    SshScheme \o Fmt(host) \o <<"/">> \o Fmt(repo_name)

\* URLParser.parse_repo_name
parse_repo_name(repo_name) ==
    IF ~Truthy(repo_name) THEN None
    ELSE IF EndsWith(repo_name, DotGit) THEN repo_name ELSE repo_name \o DotGit

\* SSHService.get_repository_url on the fields of a config
ssh_get_repository_url(host, parent_path, repo_name) ==
    SshScheme \o Fmt(host) \o Fmt(parent_path) \o <<"/">> \o Fmt(repo_name)

-----------------------------------------------------------------------------
(* SiteConfiguration *)

\* no fragment named mkgit-<site_name> in the search directories
NoFile == <<<<"<NoFile>">>>>

\* the line holds '=', is not empty and is no comment (line 372)
IsAssignment(line) == line # <<>> /\ Contains(line, "=") /\ line[1] # "#"

\* var, val = line.split('=', 1)
LineVar(line) == SubSeq(line, 1, IndexOf(line, "=") - 1)

LineVal(line) == Drop(line, IndexOf(line, "="))

\* script_vars.get(key, default) after the loop of lines 370-374: the last
\* assignment to key wins
script_var(file, key, default) ==
    LET hits == {i \in 1..Len(file) : IsAssignment(file[i]) /\ LineVar(file[i]) = key}
    IN  IF hits = {} THEN default
        ELSE LineVal(file[CHOOSE i \in hits : \A j \in hits : j <= i])

\* the dictionary load_site_config returns for a fragment that exists (lines 378-382)
load_site_config(file) ==
    [host |-> script_var(file, <<"GITHOST">>, None),
     parent_path |-> script_var(file, <<"PARENT">>, <<>>),
     repo_link |-> script_var(file, <<"REPOLINK">>, None)]

-----------------------------------------------------------------------------
(* RepositoryConfig *)

Config(target_type, target_host, org, parent_path, repo_link, repo_name) ==
    [target_type |-> target_type, target_host |-> target_host, org |-> org,
     parent_path |-> parent_path, repo_link |-> repo_link, repo_name |-> repo_name]

NoConfig == Config(None, None, None, None, None, None)

\* RepositoryConfig._parse_ssh_url and the ssh branch of _parse_site_arguments
ssh_config(u) == Config(SshKind, u.host, None, u.parent_path, None, u.repo_name)

\* from_args with the branches of lines 402-408 in another order: an ssh://
\* positional argument is looked at first
positional_first(a) ==
    IF Truthy(a.repo) /\ StartsWith(a.repo, SshScheme) THEN "positional"
    ELSE IF Truthy(a.site) THEN "site"
    ELSE "none"

\* which branch of RepositoryConfig.from_args is taken (lines 402-408)
from_args_branch(a) ==
    IF Truthy(a.site) THEN "site"
    ELSE IF Truthy(a.repo) /\ StartsWith(a.repo, SshScheme) THEN "positional"
    ELSE "none"

-----------------------------------------------------------------------------
(* GitHubService *)

GithubUser == <<"u">>
GitlabUser == <<"v">>

\* re.match(r'https://github\.com/([^/]+)/([^/]+?)(?:\.git)?/?$', origin_url)
origin_match(url) ==
    LET nomatch == [matched |-> FALSE, g1 |-> None, g2 |-> None]
    IN  IF url = None \/ ~StartsWith(url, HttpsGithub) THEN nomatch
        ELSE LET rest == Drop(url, Len(HttpsGithub))
                 i == IndexOf(rest, "/")
             IN  IF i < 2 THEN nomatch
                 ELSE LET owner == SubSeq(rest, 1, i - 1)
                          r == Drop(rest, i)
                          tails == {DotGit \o <<"/">>, DotGit, <<"/">>, <<>>}
                          fits == {t \in tails :
                                     /\ EndsWith(r, t)
                                     /\ Len(r) > Len(t)
                                     /\ ~Contains(SubSeq(r, 1, Len(r) - Len(t)), "/")}
                      IN  IF fits = {} THEN nomatch
                          ELSE LET t == CHOOSE x \in fits : \A y \in fits : Len(y) <= Len(x)
                               IN  [matched |-> TRUE, g1 |-> owner,
                                    g2 |-> SubSeq(r, 1, Len(r) - Len(t))]

\* GitHubService.get_repository_url
github_get_repository_url(c, user) ==
    SshScheme \o GitAt \o GithubCom \o <<"/">>
        \o (IF Truthy(c.org) THEN c.org ELSE user) \o <<"/">> \o Fmt(c.repo_name)

\* the URL fork_repository returns (line 540)
github_fork_url(fork_org, source_repo) ==
    SshScheme \o GitAt \o GithubCom \o <<"/">> \o fork_org \o <<"/">> \o source_repo \o DotGit

\* GitLabService.get_repository_url
gitlab_get_repository_url(c, user) ==
    SshScheme \o GitAt \o Fmt(c.target_host) \o <<"/">> \o user \o <<"/">> \o Fmt(c.repo_name)

\* ServiceFactory.create_service: the class of the service
create_service(target_type) ==
    IF target_type = Github THEN "GitHubService"
    ELSE IF target_type = Gitlab THEN "GitLabService"
    ELSE IF target_type \in {SshKind, CustomKind} THEN "SSHService"
    ELSE "fail"

\* the character ` (a string literal cannot hold it)
Backtick == "BACKTICK"

\* s.replace(old, '\\' + old)
RECURSIVE replace_escaped(_, _)
replace_escaped(s, old) ==
    IF s = <<>> THEN <<>>
    ELSE (IF Head(s) = old THEN <<"\\", old>> ELSE <<Head(s)>>) \o replace_escaped(Tail(s), old)

\* shell_escape (lines 38-40)
shell_escape(s) == replace_escaped(replace_escaped(replace_escaped(s, "\""), "$"), Backtick)

\* the literal text of the ssh_script f-string, between its interpolations
ScriptCd ==
    <<"c","d"," ","\"">>

ScriptMkdir ==
    <<"\""," ","&","&","\n"," "," "," "," ","m","k","d","i","r"," ","-","p"," ","\"">>

ScriptCdRepo ==
    <<"\""," ","&","&","\n"," "," "," "," ","c","d"," ","\"">>

ScriptInit ==
    <<"\""," ","&","&","\n"," "," "," "," ","g","i","t"," ","i","n","i","t"," ","-","-",
      "b","a","r","e"," ","-","-","s","h","a","r","e","d","=","g","r","o","u","p"," ",
      "&","&","\n"," "," "," "," ","e","c","h","o"," ","\"">>

ScriptIf ==
    <<"\""," ",">","d","e","s","c","r","i","p","t","i","o","n"," ","&","&","\n"," "," ",
      " "," ","i","f"," ">>

ScriptTouch ==
    <<" ",";"," ","t","h","e","n","\n"," "," "," "," "," "," "," "," ","t","o","u","c",
      "h"," ","g","i","t","-","d","a","e","m","o","n","-","e","x","p","o","r","t","-",
      "o","k"," ","&","&","\n"," "," "," "," "," "," "," "," ","i","f"," ","\"">>

ScriptLn ==
    <<"\""," ","!","="," ","\"","\""," ",";"," ","t","h","e","n","\n"," "," "," "," ",
      " "," "," "," "," "," "," "," ","l","n"," ","-","s","f"," ","\"">>

ScriptSlash ==
    <<"/">>

ScriptQuotes ==
    <<"\""," ","\"">>

ScriptFi ==
    <<"\"","/","\n"," "," "," "," "," "," "," "," ","f","i","\n"," "," "," "," ","f",
      "i">>

\* a part of the script: literal text, or the text interpolated for a value
Piece(src, text) == [src |-> src, text |-> text]

\* str(not private).lower()
not_private_lower(private) == IF private THEN <<"f","a","l","s","e">> ELSE <<"t","r","u","e">>

\* the ssh_script f-string of SSHService.create_repository (lines 641-651),
\* as its literal parts and interpolated values in order
ssh_script(parent_path, repo_name, desc, repo_link, private) ==
    LET parent_q == shell_escape(parent_path)
        repo_q == shell_escape(repo_name)
        desc_q == shell_escape(desc)
    IN  << Piece("text", ScriptCd), Piece("parent_path", parent_q),
           Piece("text", ScriptMkdir), Piece("repo_name", repo_q),
           Piece("text", ScriptCdRepo), Piece("repo_name", repo_q),
           Piece("text", ScriptInit), Piece("description", desc_q),
           Piece("text", ScriptIf), Piece("private", not_private_lower(private)),
           Piece("text", ScriptTouch),
           Piece("repo_link", IF Truthy(repo_link) THEN repo_link ELSE <<>>),
           Piece("text", ScriptLn), Piece("parent_path", parent_q),
           Piece("text", ScriptSlash), Piece("repo_name", repo_q),
           Piece("text", ScriptQuotes), Piece("repo_link", Fmt(repo_link)),
           Piece("text", ScriptFi) >>

\* the body of an HTTP error response: JSON with an optional message and an
\* optional errors list whose entries have an optional message, or other text
JsonBody(message, has_errors, errors) ==
    [kind |-> "json", message |-> message, has_errors |-> has_errors,
     errors |-> errors, raw |-> None]

RawBody(text) ==
    [kind |-> "raw", message |-> None, has_errors |-> FALSE, errors |-> <<>>, raw |-> text]

NoBody == [kind |-> "none", message |-> None, has_errors |-> FALSE, errors |-> <<>>,
           raw |-> None]

ApiErrorPrefix ==
    <<"G","i","t","H","u","b"," ","A","P","I"," ","e","r","r","o","r",":"," ">>

UnknownError == <<"U","n","k","n","o","w","n"," ","e","r","r","o","r">>

Unknown == <<"U","n","k","n","o","w","n">>

\* error_body[:200]
BodyLimit == 200

\* the loop of lines 560-561: message += f": {error.get('message', 'Unknown')}"
RECURSIVE append_errors(_, _)
append_errors(message, errors) ==
    IF errors = <<>> THEN message
    ELSE append_errors(
            message \o <<":", " ">> \o (IF Head(errors) = None THEN Unknown ELSE Head(errors)),
            Tail(errors))

\* _handle_api_error with the errors list left out of the text
handle_api_error_message_only(body) ==
    IF body.kind = "raw"
    THEN ApiErrorPrefix \o SubSeq(body.raw, 1, IF Len(body.raw) < BodyLimit THEN Len(body.raw) ELSE BodyLimit)
    ELSE ApiErrorPrefix \o (IF body.message = None THEN UnknownError ELSE body.message)

\* the text GitHubService._handle_api_error hands to fail()
handle_api_error(body) ==
    IF body.kind = "raw"
    THEN ApiErrorPrefix \o SubSeq(body.raw, 1, IF Len(body.raw) < BodyLimit THEN Len(body.raw) ELSE BodyLimit)
    ELSE LET message == IF body.message = None THEN UnknownError ELSE body.message
         IN  ApiErrorPrefix
                \o (IF body.has_errors THEN append_errors(message, body.errors) ELSE message)

\* main with the test of args.fork lost: every run creates
wants_fork_ignored(a) == FALSE

\* main, line 791: `if args.fork`
wants_fork(a) == a.fork

-----------------------------------------------------------------------------
(* main(): inputs *)

MaxRuns == 2        \* successive runs of the tool on one working copy
MaxLines == 2       \* most lines of a configuration fragment

RunSuffixes == {<<>>, <<"-","a">>, <<"-","a",".">>, <<"-","a","-","b">>, <<"x">>}

RunUrls ==
    {SshScheme \o h \o <<"/","p","/">> \o r :
        h \in {<<>>, <<"h">>}, r \in {<<"r">>, <<"r">> \o DotGit, <<"r",".">>}}
    \cup {SshScheme \o <<"h">>}

RunSites == {None} \cup {p \o x : p \in {Github, Gitlab}, x \in RunSuffixes}
            \cup {<<"s">>} \cup RunUrls

RepoArgs == {None, <<"r">>, <<"r">> \o DotGit, SshScheme \o <<"h","/","p","/","r">>}

ArgSets ==
    [site : RunSites, repo : RepoArgs, fork : BOOLEAN, private : BOOLEAN,
     list_sites : BOOLEAN, description : {None, <<"d">>}]

NoArgs == [site |-> None, repo |-> None, fork |-> FALSE, private |-> FALSE,
           list_sites |-> FALSE, description |-> None]

FileLines ==
    {<<"GITHOST","=","h">>, <<"GITHOST","=">>, <<"PARENT","=","/","p">>,
     <<"REPOLINK","=","/","l">>, <<"OTHER","=","x">>, <<"#","GITHOST","=","h">>}

RECURSIVE FilesUpTo(_)
FilesUpTo(n) ==
    IF n = 0 THEN {<<>>}
    ELSE LET shorter == FilesUpTo(n - 1)
         IN  shorter \cup {Append(f, l) : f \in shorter, l \in FileLines}

SiteFiles == FilesUpTo(MaxLines)

MaxErrors == 2      \* most entries of an error response's errors list

\* the message of an errors entry, None when the entry has none
EntryMessages == {None, <<"t">>, <<"s">>}

RECURSIVE ErrorListsUpTo(_)
ErrorListsUpTo(n) ==
    IF n = 0 THEN {<<>>}
    ELSE LET shorter == ErrorListsUpTo(n - 1)
         IN  shorter \cup {Append(l, e) : l \in shorter, e \in EntryMessages}

\* the bodies of a non-success response
ErrorBodies ==
    {JsonBody(m, TRUE, l) : m \in {None, <<"m">>}, l \in ErrorListsUpTo(MaxErrors)}
    \cup {JsonBody(m, FALSE, <<>>) : m \in {None, <<"m">>}}
    \cup {RawBody(<<"o","o","p","s">>)}

\* the name of the working directory
DirName == <<"w">>

\* the origin remote the working copy may have before the first run
FirstOrigins ==
    {None, HttpsGithub \o <<"o","/","r">> \o DotGit, SshScheme \o <<"h","/","p","/","o">> \o DotGit}

-----------------------------------------------------------------------------
(* main() *)

GitCmd(cmd, ok, arg, url) == [cmd |-> cmd, ok |-> ok, arg |-> arg, url |-> url]

\* the per-run state as main() starts
RunStart ==
    /\ pc = "start"
    /\ args = NoArgs
    /\ site_file = NoFile
    /\ config = NoConfig
    /\ current_branch = None
    /\ description = None
    /\ repo_url = None
    /\ exit_status = "none"
    /\ errmsg = "none"
    /\ errtext = None
    /\ http_body = NoBody
    /\ cred_reads = 0
    /\ http_calls = 0
    /\ ssh_calls = 0
    /\ git_log = <<>>
    /\ printed = FALSE

\* fail(msg), and an uncaught exception: the process exits with status 1
Fail(msg) ==
    /\ pc' = "failed"
    /\ exit_status' = "1"
    /\ errmsg' = msg
    /\ errtext' = None
    /\ http_body' = NoBody

\* GitHubService._handle_api_error(response), which ends in fail()
FailApi(body) ==
    /\ pc' = "failed"
    /\ exit_status' = "1"
    /\ errmsg' = "GitHub API error"
    /\ errtext' = handle_api_error(body)
    /\ http_body' = body

\* parse_arguments (lines 696-732)
ParseArgs ==
    /\ pc = "start"
    /\ args' \in ArgSets
    /\ pc' = "main"
    /\ UNCHANGED <<pvars, runs, site_file, config, current_branch, description, repo_url,
                   origin, origin0, token_file, exit_status, errmsg, errtext, http_body, cred_reads, http_calls,
                   ssh_calls, git_log, printed>>

\* main, lines 767-769: --list-sites prints the sites and exits 0
ListSites ==
    /\ pc = "main"
    /\ args.list_sites
    /\ pc' = "done"
    /\ exit_status' = "0"
    /\ UNCHANGED <<pvars, runs, args, site_file, config, current_branch, description,
                   repo_url, origin, origin0, token_file, errmsg, errtext, http_body, cred_reads, http_calls,
                   ssh_calls, git_log, printed>>

\* setup_working_directory: the directory holds .git or the run fails
SetupWorkingDirectory ==
    /\ pc = "main"
    /\ ~args.list_sites
    /\ \E is_git \in BOOLEAN :
         IF is_git THEN pc' = "from_args" /\ UNCHANGED <<exit_status, errmsg, errtext, http_body>>
         ELSE Fail("not a git working directory")
    /\ UNCHANGED <<pvars, runs, args, site_file, config, current_branch, description,
                   repo_url, origin, origin0, token_file, cred_reads, http_calls, ssh_calls,
                   git_log, printed>>

\* RepositoryConfig._parse_site_arguments for a custom site (lines 433-442)
CustomTarget ==
    \E f \in SiteFiles \cup {NoFile} :
        /\ site_file' = f
        /\ IF f = NoFile
           THEN Fail("unknown site script") /\ UNCHANGED config
           ELSE LET sc == load_site_config(f)
                IN  IF ~Truthy(sc.host)
                    THEN Fail("site script must set GITHOST") /\ UNCHANGED config
                    ELSE /\ config' = Config(CustomKind, sc.host, None, sc.parent_path,
                                             sc.repo_link, None)
                         /\ pc' = "branch"
                         /\ UNCHANGED <<exit_status, errmsg, errtext, http_body>>

\* RepositoryConfig.from_args, with _parse_site_arguments and _parse_ssh_url
FromArgs ==
    /\ pc = "from_args"
    /\ LET b == from_args_branch(args)
       IN  IF b = "site"
           THEN LET r == parse_site_arguments(args.site)
                IN  IF r.outcome = "assert"
                    THEN Fail("AssertionError") /\ UNCHANGED <<config, site_file>>
                    ELSE IF r.outcome = "fail"
                    THEN Fail("bad SSH URL") /\ UNCHANGED <<config, site_file>>
                    ELSE IF r.service \in {Github, Gitlab}
                    THEN /\ config' = Config(r.service, r.host, r.org, None, None, None)
                         /\ pc' = "branch"
                         /\ UNCHANGED <<exit_status, errmsg, errtext, http_body, site_file>>
                    ELSE IF r.service = SshKind
                    THEN /\ config' = Config(SshKind, r.host, None, r.parent_path, None,
                                             r.repo_name)
                         /\ pc' = "branch"
                         /\ UNCHANGED <<exit_status, errmsg, errtext, http_body, site_file>>
                    ELSE CustomTarget
           ELSE IF b = "positional"
           THEN LET u == parse_ssh_url(args.repo)
                IN  IF u.ok
                    THEN /\ config' = ssh_config(u)
                         /\ pc' = "branch"
                         /\ UNCHANGED <<exit_status, errmsg, errtext, http_body, site_file>>
                    ELSE Fail("bad SSH URL") /\ UNCHANGED <<config, site_file>>
           ELSE Fail("no target site specified") /\ UNCHANGED <<config, site_file>>
    /\ UNCHANGED <<pvars, runs, args, current_branch, description, repo_url, origin,
                   origin0, token_file, cred_reads, http_calls, ssh_calls, git_log, printed>>

\* GitOperations.get_current_branch: `git branch` fails, marks no branch, or
\* marks one; a branch other than master and main is rejected
GetCurrentBranch ==
    /\ pc = "branch"
    /\ \E out \in {"error", "nobranch", "master", "main", "topic"} :
         IF out = "error" THEN Fail("could not get current branch") /\ UNCHANGED current_branch
         ELSE IF out = "nobranch"
         THEN Fail("could not determine current branch") /\ UNCHANGED current_branch
         ELSE IF out \notin {"master", "main"}
         THEN Fail("invalid main branch") /\ UNCHANGED current_branch
         ELSE /\ current_branch' = out
              /\ pc' = "describe"
              /\ UNCHANGED <<exit_status, errmsg, errtext, http_body>>
    /\ UNCHANGED <<pvars, runs, args, site_file, config, description, repo_url, origin,
                   origin0, token_file, cred_reads, http_calls, ssh_calls, git_log, printed>>

\* GitOperations.get_description: the -d text, else the last line of the
\* log's subjects, else "Repository"
GetDescription ==
    /\ pc = "describe"
    /\ IF Truthy(args.description) THEN description' = args.description
       ELSE description' \in {<<"l">>, Repository}
    /\ pc' = "provision"
    /\ UNCHANGED <<pvars, runs, args, site_file, config, current_branch, repo_url, origin,
                   origin0, token_file, exit_status, errmsg, errtext, http_body, cred_reads, http_calls, ssh_calls,
                   git_log, printed>>

\* main, lines 791-793: a fork is asked of a target that is not github
ForkRejected ==
    /\ pc = "provision"
    /\ create_service(config.target_type) # "fail"
    /\ wants_fork(args)
    /\ config.target_type # Github
    /\ Fail("forking only supported for GitHub")
    /\ UNCHANGED <<pvars, runs, args, site_file, config, current_branch, description,
                   repo_url, origin, origin0, token_file, cred_reads, http_calls, ssh_calls,
                   git_log, printed>>

\* GitHubService.fork_repository
GitHubFork ==
    /\ pc = "provision"
    /\ create_service(config.target_type) = "GitHubService"
    /\ wants_fork(args)
    /\ config.target_type = Github
    /\ cred_reads' = cred_reads + 1
    /\ \E files_ok \in BOOLEAN, status \in {"202", "error", "exception"} :
         LET m == origin_match(origin)
             source_repo == m.g2
             fork_org == IF Truthy(config.org) THEN config.org
                         ELSE GithubUser \o <<"-","u","p","s","t","r","e","a","m">>
         IN  IF ~files_ok
             THEN Fail("need credential file") /\ UNCHANGED <<http_calls, repo_url, git_log>>
             ELSE IF origin = None
             THEN /\ Fail("could not get origin URL")
                  /\ git_log' = Append(git_log, GitCmd("get-url", FALSE, None, origin))
                  /\ UNCHANGED <<http_calls, repo_url>>
             ELSE IF ~m.matched
             THEN /\ Fail("origin must be a GitHub repository")
                  /\ git_log' = Append(git_log, GitCmd("get-url", TRUE, None, origin))
                  /\ UNCHANGED <<http_calls, repo_url>>
             ELSE /\ git_log' = Append(git_log, GitCmd("get-url", TRUE, None, origin))
                  /\ http_calls' = http_calls + 1
                  /\ IF status = "202"
                     THEN /\ repo_url' = github_fork_url(fork_org, source_repo)
                          /\ pc' = "wire"
                          /\ UNCHANGED <<exit_status, errmsg, errtext, http_body>>
                     ELSE IF status = "error"
                     THEN (\E body \in ErrorBodies : FailApi(body)) /\ UNCHANGED repo_url
                     ELSE Fail("GitHub fork error") /\ UNCHANGED repo_url
    /\ UNCHANGED <<pvars, runs, args, site_file, config, current_branch, description,
                   origin, origin0, token_file, ssh_calls, printed>>

\* GitHubService.create_repository
GitHubCreate ==
    /\ pc = "provision"
    /\ create_service(config.target_type) = "GitHubService"
    /\ ~wants_fork(args)
    /\ cred_reads' = cred_reads + 1
    /\ \E files_ok \in BOOLEAN, status \in {"201", "error", "exception"} :
         IF ~files_ok
         THEN Fail("need credential file") /\ UNCHANGED http_calls
         ELSE /\ http_calls' = http_calls + 1
              /\ IF status = "201" THEN pc' = "get_url" /\ UNCHANGED <<exit_status, errmsg, errtext, http_body>>
                 ELSE IF status = "error" THEN \E body \in ErrorBodies : FailApi(body)
                 ELSE Fail("GitHub connection error")
    /\ UNCHANGED <<pvars, runs, args, site_file, config, current_branch, description,
                   repo_url, origin, origin0, token_file, ssh_calls, git_log, printed>>

\* GitHubService.get_repository_url: reads the credential files again (the
\* files create_repository has just read are still there)
GitHubGetUrl ==
    /\ pc = "get_url"
    /\ create_service(config.target_type) = "GitHubService"
    /\ cred_reads' = cred_reads + 1
    /\ repo_url' = github_get_repository_url(config, GithubUser)
    /\ pc' = "wire"
    /\ UNCHANGED <<pvars, runs, args, site_file, config, current_branch, description,
                   origin, origin0, token_file, exit_status, errmsg, errtext, http_body, http_calls, ssh_calls,
                   git_log, printed>>

\* GitLabService.create_repository, with get_gitlab_credentials and
\* _get_or_create_gitlab_token
GitLabCreate ==
    /\ pc = "provision"
    /\ create_service(config.target_type) = "GitLabService"
    /\ ~wants_fork(args)
    /\ cred_reads' = cred_reads + 1
    /\ \E user_ok \in BOOLEAN,
          session \in {"token", "notoken", "refused", "exception"},
          status \in {"201", "error", "exception"} :
         IF ~user_ok
         THEN Fail("need credential file") /\ UNCHANGED <<http_calls, token_file>>
         ELSE IF ~token_file /\ session # "token"
         THEN /\ http_calls' = http_calls + 1
              /\ Fail("GitLab authentication error")
              /\ UNCHANGED token_file
         ELSE /\ token_file' = TRUE
              /\ http_calls' = http_calls + (IF token_file THEN 1 ELSE 2)
              /\ IF status = "201" THEN pc' = "get_url" /\ UNCHANGED <<exit_status, errmsg, errtext, http_body>>
                 ELSE IF status = "error" THEN Fail("GitLab API error")
                 ELSE Fail("GitLab connection error")
    /\ UNCHANGED <<pvars, runs, args, site_file, config, current_branch, description,
                   repo_url, origin, origin0, ssh_calls, git_log, printed>>

\* GitLabService.get_repository_url: reads the credential files again
GitLabGetUrl ==
    /\ pc = "get_url"
    /\ create_service(config.target_type) = "GitLabService"
    /\ cred_reads' = cred_reads + 1
    /\ repo_url' = gitlab_get_repository_url(config, GitlabUser)
    /\ pc' = "wire"
    /\ UNCHANGED <<pvars, runs, args, site_file, config, current_branch, description,
                   origin, origin0, token_file, exit_status, errmsg, errtext, http_body, http_calls, ssh_calls,
                   git_log, printed>>

\* SSHService.create_repository: the two assertions, the host test, then
\* the script is piped to `ssh -x host sh`
SSHCreate ==
    /\ pc = "provision"
    /\ create_service(config.target_type) = "SSHService"
    /\ ~wants_fork(args)
    /\ \E ssh_ok \in BOOLEAN :
         IF config.parent_path = None \/ config.repo_name = None
         THEN Fail("AssertionError") /\ UNCHANGED ssh_calls
         ELSE IF ~Truthy(config.target_host)
         THEN Fail("SSH host is required") /\ UNCHANGED ssh_calls
         ELSE /\ ssh_calls' = ssh_calls + 1
              /\ IF ssh_ok THEN pc' = "get_url" /\ UNCHANGED <<exit_status, errmsg, errtext, http_body>>
                 ELSE Fail("SSH failed")
    /\ UNCHANGED <<pvars, runs, args, site_file, config, current_branch, description,
                   repo_url, origin, origin0, token_file, cred_reads, http_calls, git_log, printed>>

\* SSHService.get_repository_url
SSHGetUrl ==
    /\ pc = "get_url"
    /\ create_service(config.target_type) = "SSHService"
    /\ repo_url' = ssh_get_repository_url(config.target_host, config.parent_path,
                                          config.repo_name)
    /\ pc' = "wire"
    /\ UNCHANGED <<pvars, runs, args, site_file, config, current_branch, description,
                   origin, origin0, token_file, exit_status, errmsg, errtext, http_body, cred_reads, http_calls,
                   ssh_calls, git_log, printed>>

\* GitOperations.setup_remote: `git remote get-url origin`; when it succeeds,
\* `git remote rm origin`; then `git remote add origin <url>`.  The status of
\* rm and of add is dropped.  git refuses to add a remote that exists.
SetupRemote ==
    /\ pc = "wire"
    /\ \E rm_ok \in BOOLEAN, add_ok \in BOOLEAN :
         LET had == origin # None
             after_rm == IF had /\ rm_ok THEN None ELSE origin
             added == after_rm = None /\ add_ok
             rm_log == IF had THEN <<GitCmd("rm", rm_ok, None, origin)>> ELSE <<>>
         IN  /\ origin' = IF added THEN repo_url ELSE after_rm
             /\ git_log' = git_log \o <<GitCmd("get-url", had, None, origin)>> \o rm_log
                               \o <<GitCmd("add", added, repo_url, after_rm)>>
    /\ pc' = "push"
    /\ UNCHANGED <<pvars, runs, args, site_file, config, current_branch, description,
                   repo_url, origin0, token_file, exit_status, errmsg, errtext, http_body, cred_reads, http_calls,
                   ssh_calls, printed>>

\* GitOperations.push_to_remote(current_branch): `git push -u origin <branch>`,
\* push_to_remote with the exit status of git push never tested
push_failed_unchecked(ok) == FALSE

\* push_to_remote, line 230: status != 0
push_failed(ok) == ~ok

\* which cannot succeed without an origin remote
PushToRemote ==
    /\ pc = "push"
    /\ \E push_ok \in BOOLEAN :
         LET ok == push_ok /\ origin # None
         IN  /\ git_log' = Append(git_log, GitCmd("push", ok, current_branch, origin))
             /\ IF push_failed(ok) THEN Fail("push to origin failed")
                ELSE pc' = "print" /\ UNCHANGED <<exit_status, errmsg, errtext, http_body>>
    /\ UNCHANGED <<pvars, runs, args, site_file, config, current_branch, description,
                   repo_url, origin, origin0, token_file, cred_reads, http_calls, ssh_calls, printed>>

\* main, line 803: the success message, then the process ends with status 0
PrintSuccess ==
    /\ pc = "print"
    /\ printed' = TRUE
    /\ pc' = "done"
    /\ exit_status' = "0"
    /\ UNCHANGED <<pvars, runs, args, site_file, config, current_branch, description,
                   repo_url, origin, origin0, token_file, errmsg, errtext, http_body, cred_reads, http_calls,
                   ssh_calls, git_log>>

\* the tool is run again on the same working copy
NewRun ==
    /\ pc \in {"done", "failed"}
    /\ runs < MaxRuns
    /\ runs' = runs + 1
    /\ pc' = "start"
    /\ args' = NoArgs
    /\ site_file' = NoFile
    /\ config' = NoConfig
    /\ current_branch' = None
    /\ description' = None
    /\ repo_url' = None
    /\ exit_status' = "none"
    /\ errmsg' = "none"
    /\ errtext' = None
    /\ http_body' = NoBody
    /\ cred_reads' = 0
    /\ http_calls' = 0
    /\ ssh_calls' = 0
    /\ git_log' = <<>>
    /\ printed' = FALSE
    /\ origin0' = origin
    /\ UNCHANGED <<pvars, origin, token_file>>

\* the parser harness at rest
ParseIdle ==
    /\ pstage = "idle"
    /\ pin = [kind |-> "none", text |-> None, host |-> None, parent |-> None, repo |-> None,
              description |-> None, repo_link |-> None, private |-> FALSE]
    /\ psite = SiteResult("none", None, None, None, None, None, None)
    /\ purl = NoUrl
    /\ pbuilt = None
    /\ pagain = NoUrl
    /\ pscript = <<>>

Init ==
    /\ ParseIdle
    /\ RunStart
    /\ runs = 1
    /\ origin \in FirstOrigins
    /\ origin0 = origin
    /\ token_file \in BOOLEAN

Next ==
    \/ ParseArgs
    \/ ListSites
    \/ SetupWorkingDirectory
    \/ FromArgs
    \/ GetCurrentBranch
    \/ GetDescription
    \/ ForkRejected
    \/ GitHubFork
    \/ GitHubCreate
    \/ GitHubGetUrl
    \/ GitLabCreate
    \/ GitLabGetUrl
    \/ SSHCreate
    \/ SSHGetUrl
    \/ SetupRemote
    \/ PushToRemote
    \/ PrintSuccess
    \/ NewRun

Spec == Init /\ [][Next]_vars

-----------------------------------------------------------------------------
(* The parsers applied to bounded inputs *)

\* what is typed after github, gitlab or nothing
Suffixes == StringsUpTo({"a", ".", "-"}, MaxLen)

SiteTexts == {p \o s : p \in {Github, Gitlab, <<>>}, s \in Suffixes} \ {<<>>}

Parts == StringsUpTo({"a", "."}, MaxPart)

Segments == {<<"/">> \o s : s \in {<<>>, <<"a">>, <<".">>}}

\* parent paths of 1..n '/'-prefixed segments
RECURSIVE ParentsUpTo(_)
ParentsUpTo(n) ==
    IF n = 1 THEN Segments
    ELSE LET shorter == ParentsUpTo(n - 1)
         IN  shorter \cup {p \o s : p \in shorter, s \in Segments}

Parents == ParentsUpTo(MaxSegs)

RepoNames == Parts \cup {b \o DotGit : b \in Parts}

\* ssh URLs that are not built from parts: too few slashes, nothing after the scheme
OddUrls == {SshScheme \o s : s \in StringsUpTo({"a", "/"}, MaxPart)}

SiteInput(t) ==
    [kind |-> "site", text |-> t, host |-> None, parent |-> None, repo |-> None,
     description |-> None, repo_link |-> None, private |-> FALSE]

UrlInput(h, p, r) ==
    [kind |-> "url", text |-> SshScheme \o h \o p \o <<"/">> \o r,
     host |-> h, parent |-> p, repo |-> r,
     description |-> None, repo_link |-> None, private |-> FALSE]

MaxVal == 1     \* longest value interpolated into the ssh script

\* values with and without shell metacharacters
ScriptValues == StringsUpTo({"a", "\"", "$", Backtick}, MaxVal)

\* repository names and descriptions with and without a shell metacharacter
ScriptRepos == {<<"r">>, <<Backtick>>}

ScriptDescriptions == {<<"d">>, <<"\"">>}

\* the arguments of SSHService.create_repository: config.parent_path,
\* config.repo_name, description, config.repo_link, private
ScriptInput(p, r, d, l, private) ==
    [kind |-> "script", text |-> None, host |-> <<"h">>, parent |-> p, repo |-> r,
     description |-> d, repo_link |-> l, private |-> private]

ParseInputs ==
    {SiteInput(t) : t \in SiteTexts \cup OddUrls}
    \cup {UrlInput(h, p, r) : h \in Parts, p \in Parents, r \in RepoNames}
    \cup {ScriptInput(p, r, d, l, private) :
            p \in ScriptValues, r \in ScriptRepos, d \in ScriptDescriptions,
            l \in ScriptValues \cup {None}, private \in BOOLEAN}

ParseInit ==
    /\ pstage = "input"
    /\ pin \in ParseInputs
    /\ psite = SiteResult("none", None, None, None, None, None, None)
    /\ purl = NoUrl
    /\ pbuilt = None
    /\ pagain = NoUrl
    /\ pscript = <<>>
    /\ RunStart
    /\ runs = 1
    /\ origin = None
    /\ origin0 = None
    /\ token_file = FALSE

\* parse_site_arguments(pin.text)
ParseSite ==
    /\ pstage = "input"
    /\ pin.kind # "script"
    /\ psite' = parse_site_arguments(pin.text)
    /\ pstage' = "site"
    /\ UNCHANGED <<pin, purl, pbuilt, pagain, pscript>>
    /\ UNCHANGED rvars

\* parse_ssh_url(pin.text)
ParseUrl ==
    /\ pstage = "site"
    /\ purl' = parse_ssh_url(pin.text)
    /\ pstage' = "url"
    /\ UNCHANGED <<pin, psite, pbuilt, pagain, pscript>>
    /\ UNCHANGED rvars

\* SSHService.get_repository_url of the parsed target
BuildUrl ==
    /\ pstage = "url"
    /\ purl.ok
    /\ pbuilt' = ssh_get_repository_url(purl.host, purl.parent_path, purl.repo_name)
    /\ pstage' = "built"
    /\ UNCHANGED <<pin, psite, purl, pagain, pscript>>
    /\ UNCHANGED rvars

\* parse_ssh_url of the URL that get_repository_url built
Reparse ==
    /\ pstage = "built"
    /\ pagain' = parse_ssh_url(pbuilt)
    /\ pstage' = "reparsed"
    /\ UNCHANGED <<pin, psite, purl, pbuilt, pscript>>
    /\ UNCHANGED rvars

\* the ssh_script of SSHService.create_repository for the arguments pin
BuildScript ==
    /\ pstage = "input"
    /\ pin.kind = "script"
    /\ pscript' = ssh_script(pin.parent, pin.repo, pin.description, pin.repo_link, pin.private)
    /\ pstage' = "script"
    /\ UNCHANGED <<pin, psite, purl, pbuilt, pagain>>
    /\ UNCHANGED rvars

ParseNext == ParseSite \/ ParseUrl \/ BuildUrl \/ Reparse \/ BuildScript

SpecParse == ParseInit /\ [][ParseNext]_vars

-----------------------------------------------------------------------------
(* Site specs *)

\* a suffix segment: non-empty, no '-'
IsSeg(s) == s # <<>> /\ ~Contains(s, "-")

Segs == {s \in Suffixes : IsSeg(s)}

\* C1: for every site spec github-<org>, org a non-empty string without
\* '-', parse_site_arguments yields service github, host github.com and
\* org = <org>; for the bare spec github the org is None.
C1_GithubOrg ==
    pstage # "input" =>
        /\ \A o \in Segs :
              pin.text = Github \o <<"-">> \o o =>
                  /\ psite.outcome = "return"
                  /\ psite.service = Github
                  /\ psite.host = GithubCom
                  /\ psite.org = o
        /\ pin.text = Github =>
              /\ psite.outcome = "return"
              /\ psite.service = Github
              /\ psite.host = GithubCom
              /\ psite.org = None

\* C2: gitlab -> gitlab.com, no org; gitlab-<seg> without '.' -> gitlab.com,
\* org = seg; gitlab-<seg> with '.' -> host = seg, no org;
\* gitlab-<seg1>-<seg2> -> host = seg1, org = seg2.
C2_GitlabForms ==
    pstage # "input" =>
        /\ pin.text = Gitlab =>
              /\ psite.outcome = "return" /\ psite.service = Gitlab
              /\ psite.host = GitlabCom /\ psite.org = None
        /\ \A s \in Segs :
              pin.text = Gitlab \o <<"-">> \o s =>
                  /\ psite.outcome = "return" /\ psite.service = Gitlab
                  /\ psite.host = (IF Contains(s, ".") THEN s ELSE GitlabCom)
                  /\ psite.org = (IF Contains(s, ".") THEN None ELSE s)
        /\ \A s1 \in Segs :
            StartsWith(pin.text, Gitlab \o <<"-">> \o s1 \o <<"-">>) =>
            \A s2 \in Segs :
              pin.text = Gitlab \o <<"-">> \o s1 \o <<"-">> \o s2 =>
                  /\ psite.outcome = "return" /\ psite.service = Gitlab
                  /\ psite.host = s1
                  /\ psite.org = s2

\* gitlab-<seg1>-<seg2> was parsed with a first segment that has no '.',
\* and so were a dotted and an undotted single segment
C2_Witness ==
    /\ pstage = "site"
    /\ pin.text = Gitlab \o <<"-", "a", "-", "a", "a">>
    /\ psite.host = <<"a">>
    /\ psite.org = <<"a", "a">>

-----------------------------------------------------------------------------
(* Explicit URLs *)

\* the repository name with '.git' appended if it was not already present
Suffixed(r) == IF EndsWith(r, DotGit) THEN r ELSE r \o DotGit

\* parse_ssh_url gave back the parts the URL was built from, and the URL that
\* get_repository_url builds from them parses to the same triple
RoundTrip ==
    /\ pstage \in {"url", "built", "reparsed"} =>
          /\ purl.ok
          /\ purl.host = pin.host
          /\ purl.parent_path = pin.parent
          /\ purl.repo_name = Suffixed(pin.repo)
    /\ pstage = "reparsed" => pagain = purl

\* C3 as stated: for every host, parent path and repository name,
\* parse_ssh_url(ssh:// + host + parent + / + repo) returns host, parent and
\* repo with '.git' appended if missing, and get_repository_url of that
\* result parses back to the same triple.
C3_EveryRepoName == pin.kind = "url" => RoundTrip

\* C3 amended: the same, for every repository name that ends with '.git' or
\* holds no '.'.
C3_RoundTrip ==
    (pin.kind = "url" /\ (EndsWith(pin.repo, DotGit) \/ ~Contains(pin.repo, "."))) => RoundTrip

\* a URL with a two-segment parent and a name without the suffix went round
C3_Witness ==
    /\ pstage = "reparsed"
    /\ pin.kind = "url"
    /\ pin.host = <<"a", ".">>
    /\ pin.parent = <<"/", "a", "/", "a">>
    /\ pin.repo = <<"a">>
    /\ pagain.repo_name = <<"a", ".", "g", "i", "t">>

-----------------------------------------------------------------------------
(* The orchestrator *)

\* the run has a resolved target
Resolved == config # NoConfig

\* RepositoryConfig.from_args has run in this run
TargetTried ==
    /\ ~args.list_sites
    /\ pc \notin {"start", "main", "from_args"}
    /\ errmsg # "not a git working directory"

\* the steps after Provision
AfterProvision == {"wire", "push", "print", "done"}

\* C4: in every run that reaches the Provision step the repository name
\* handed to the provisioner is non-empty and ends with '.git'; for a
\* github, gitlab or configured-site target it is the positional repo
\* argument with the suffix, or the directory's name plus '.git' when that
\* argument is omitted.
C4_RepoNameSuffixed ==
    pc = "provision" =>
        /\ Truthy(config.repo_name)
        /\ EndsWith(config.repo_name, DotGit)
        /\ config.target_type # SshKind =>
              config.repo_name = (IF Truthy(args.repo) THEN parse_repo_name(args.repo)
                                  ELSE DirName \o DotGit)

\* the run did WireRemote: it ran `git remote add`
Wired == \E i \in 1..Len(git_log) : git_log[i].cmd = "add"

\* C5: after any number of successive runs, once a run's WireRemote step
\* (setup_remote) has run there is exactly one origin remote and its URL is
\* the URL that run resolved.
C5_OneOriginLatestUrl == Wired => (origin # None /\ origin = repo_url)

\* C6: when fork mode is requested and the resolved target is not github, the
\* run goes no further than Provision, it exits with status 1, no HTTP
\* request, remote-shell invocation or credential read has happened in it,
\* and origin is as it was when the run started.
C6_ForkNeedsGithub ==
    (args.fork /\ Resolved /\ config.target_type # Github) =>
        /\ pc \in {"branch", "describe", "provision", "failed"}
        /\ pc = "failed" => exit_status = "1"
        /\ exit_status # "0"
        /\ ~printed
        /\ http_calls = 0
        /\ ssh_calls = 0
        /\ cred_reads = 0
        /\ origin = origin0

\* a fork asked of a gitlab target was rejected at Provision
C6_Witness ==
    /\ pc = "failed"
    /\ args.fork
    /\ config.target_type = Gitlab
    /\ errmsg = "forking only supported for GitHub"
    /\ origin # None

\* the fragment assigns a key other than GITHOST, PARENT and REPOLINK
HasUnknownKey(file) ==
    \E i \in 1..Len(file) :
        /\ IsAssignment(file[i])
        /\ LineVar(file[i]) \notin {<<"GITHOST">>, <<"PARENT">>, <<"REPOLINK">>}

\* the fragment assigns GITHOST
HasHostKey(file) ==
    \E i \in 1..Len(file) : IsAssignment(file[i]) /\ LineVar(file[i]) = <<"GITHOST">>

\* the site spec of the run has one of the four fatal input errors
InputError ==
    /\ Truthy(args.site)
    /\ \/ StartsWith(args.site, SshScheme) /\ ~parse_ssh_url(args.site).ok
       \/ /\ parse_site_arguments(args.site).service = CustomKind
          /\ \/ site_file = NoFile
             \/ HasUnknownKey(site_file)
             \/ ~HasHostKey(site_file)

\* C7: a run whose site spec has a fatal input error (unparseable ssh URL,
\* fragment not found, fragment with an unrecognized key, fragment without
\* GITHOST) ends at target resolution with exit status 1, before any HTTP
\* request, remote-shell invocation or credential read.
C7_InputErrorsFatal ==
    (InputError /\ TargetTried) =>
        /\ pc = "failed"
        /\ exit_status = "1"
        /\ http_calls = 0
        /\ ssh_calls = 0
        /\ cred_reads = 0

\* the URL put together from the target's host, parent path and repository name
Reassembled == SshScheme \o config.target_host \o config.parent_path \o <<"/">> \o config.repo_name

\* C8 as stated: with an explicit ssh:// target the run makes no
\* provisioning call, neither a remote-shell invocation nor an HTTP request,
\* and the origin URL is the reassembled host, parent path and name.
C8_NoProvisioningCall ==
    config.target_type = SshKind =>
        /\ ssh_calls = 0
        /\ http_calls = 0
        /\ pc \in AfterProvision => repo_url = Reassembled

\* C8 amended: with an explicit ssh:// target the run sends no HTTP
\* request and reads no credentials, and it reaches WireRemote only after
\* exactly one remote-shell invocation (SSHService.create_repository) has
\* succeeded; the origin URL is the reassembled host, parent path and name.
C8_SshProvisionsOnce ==
    config.target_type = SshKind =>
        /\ http_calls = 0
        /\ cred_reads = 0
        /\ ssh_calls <= 1
        /\ pc \in AfterProvision \cup {"get_url"} => ssh_calls = 1
        /\ pc \in AfterProvision => repo_url = Reassembled

\* a run on an explicit URL is at WireRemote, after its remote-shell call
C8_Witness ==
    /\ pc = "wire"
    /\ config.target_type = SshKind
    /\ ssh_calls = 1
    /\ repo_url = SshScheme \o <<"h","/","p","/","r">> \o DotGit

\* C9: when a git command of WireRemote or Push fails (remote rm, remote
\* add, push) the run is Failed with status 1 at once: the failed command
\* is the last one run, and the success message is not printed.
C9_GitFailureTerminal ==
    \A i \in 1..Len(git_log) :
        (git_log[i].cmd \in {"rm", "add", "push"} /\ ~git_log[i].ok) =>
            /\ i = Len(git_log)
            /\ pc = "failed"
            /\ exit_status = "1"
            /\ ~printed

\* C10: a fork run without a site argument does not fail at target
\* resolution: it gets past from_args with a resolved target.
C10_ForkWithoutSite ==
    (args.fork /\ ~Truthy(args.site) /\ TargetTried) =>
        /\ Resolved
        /\ errmsg \notin {"no target site specified", "bad SSH URL"}

\* x occurs in t as a contiguous run of characters
IsInfix(x, t) ==
    \E i \in 0..(Len(t) - Len(x)) : SubSeq(t, i + 1, i + Len(x)) = x

\* ": " plus each entry's message, in the order of the list
RECURSIVE EntriesText(_)
EntriesText(errors) ==
    IF errors = <<>> THEN <<>>
    ELSE <<":", " ">> \o Head(errors) \o EntriesText(Tail(errors))

\* the run ended on a non-success answer to the github create or fork
\* request whose body is JSON with a message and an errors list whose
\* entries each have a message
ApiErrorWithMessages ==
    /\ errmsg = "GitHub API error"
    /\ http_body.kind = "json"
    /\ http_body.message # None
    /\ http_body.has_errors
    /\ \A i \in 1..Len(http_body.errors) : http_body.errors[i] # None

\* C11: when a github create or fork request is answered with a non-success
\* status and a JSON body, the fatal error text contains the body's message
\* followed, in order, by ": " plus the message of each entry of the body's
\* errors list, and the run exits with status 1 without wiring origin or
\* pushing.
C11_ApiErrorText ==
    ApiErrorWithMessages =>
        /\ IsInfix(http_body.message \o EntriesText(http_body.errors), errtext)
        /\ pc = "failed"
        /\ exit_status = "1"
        /\ ~printed
        /\ origin = origin0
        /\ \A i \in 1..Len(git_log) : git_log[i].cmd \notin {"rm", "add", "push"}

\* a create request (not a fork) was refused with message "m" and two errors
\* entries "t" and "s"
C11_Witness ==
    /\ ApiErrorWithMessages
    /\ ~args.fork
    /\ http_body.errors = << <<"t">>, <<"s">> >>
    /\ errtext = ApiErrorPrefix \o <<"m", ":", " ", "t", ":", " ", "s">>

\* C12: in every run the credential store is entered at most once: the
\* backend's credential files are read exactly once per run, also on a
\* successful non-fork run that creates the repository and then computes
\* its remote URL.
C12_CredentialsReadOnce ==
    /\ cred_reads <= 1
    /\ (printed /\ config.target_type \in {Github, Gitlab}) => cred_reads = 1

ShellMeta == {"\"", "$", Backtick}

\* every double quote, dollar sign and backtick of t has a backslash before it
MetaEscaped(t) ==
    \A k \in 1..Len(t) : t[k] \in ShellMeta => (k > 1 /\ t[k - 1] = "\\")

\* C13: in the shell script built by SSHService.create_repository every
\* interpolated value (parent path, repository name, description,
\* repo_link) has gone through shell_escape: each double quote, dollar sign
\* and backtick of it is backslash-escaped, none reaches the script
\* unescaped.
C13_EveryValueEscaped ==
    pstage = "script" =>
        \A i \in 1..Len(pscript) :
            pscript[i].src # "text" => MetaEscaped(pscript[i].text)

\* the two recognized main-branch names
MainBranches == {"master", "main"}

\* the run's `git push -u origin <branch>` commands that exited with 0
PushedOk(branch) ==
    \E i \in 1..Len(git_log) :
        /\ git_log[i].cmd = "push"
        /\ git_log[i].arg = branch
        /\ git_log[i].ok

\* C14: in the Push step of a successful run the current branch is pushed to
\* origin with upstream tracking, and a main branch (master or main) other
\* than the current one would be pushed too; the run reaches Done only after
\* every push has succeeded. get_current_branch lets a run go on only from
\* master or main, so the detected main branch is the current branch and
\* its push is the only one.
\* (A --list-sites run ends with status 0 before any of this and has no
\* Push step.)
C14_PushBeforeDone ==
    (pc \in {"print", "done"} /\ ~args.list_sites) =>
        /\ current_branch \in MainBranches
        /\ PushedOk(current_branch)
        /\ git_log[Len(git_log)].cmd = "push"
        /\ \A i \in 1..Len(git_log) : git_log[i].cmd = "push" => git_log[i].ok
        /\ printed => exit_status = "0"

\* a run from branch main is Done after its push succeeded
C14_Witness ==
    /\ pc = "done"
    /\ printed
    /\ ~args.list_sites
    /\ current_branch = "main"
    /\ PushedOk("main")

\* C15: every target that target resolution returns has a non-empty host,
\* and an ssh or custom target has a non-empty parent path as well; a spec
\* that would give an empty host or parent path is rejected as a fatal
\* input error instead.
C15_TargetInvariant ==
    Resolved =>
        /\ config.target_type \in {SshKind, CustomKind, Github, Gitlab}
        /\ Truthy(config.target_host)
        /\ config.target_type \in {SshKind, CustomKind} => Truthy(config.parent_path)

\* a spec of the form github[-org] or gitlab[-host-or-org[-org]]
WellFormedSaas(t) ==
    \/ t \in {Github, Gitlab}
    \/ \E s1 \in Segs : t \in {Github \o <<"-">> \o s1, Gitlab \o <<"-">> \o s1}
    \/ \E s1 \in Segs :
           /\ StartsWith(t, Gitlab \o <<"-">> \o s1 \o <<"-">>)
           /\ \E s2 \in Segs : t = Gitlab \o <<"-">> \o s1 \o <<"-">> \o s2

\* C16: for every non-empty site spec parse_site_arguments never reaches its
\* final `assert False`; a spec that is not an ssh:// URL gives a (service,
\* config) result, and one that is not a well-formed github or gitlab form
\* either (githubx, gitlab-a-b-c) is treated as the name of a configuration
\* fragment: service custom with that site name.
C16_NeverUnhandled ==
    (pin.kind = "site" /\ pstage # "input") =>
        /\ psite.outcome # "assert"
        /\ ~StartsWith(pin.text, SshScheme) =>
              /\ psite.outcome = "return"
              /\ ~WellFormedSaas(pin.text) =>
                    /\ psite.service = CustomKind
                    /\ psite.site_name = pin.text

====
